---------------------------- MODULE Spec2Model ----------------------------
(***************************************************************************)
(* The command dispatcher of the ClearCore serial driver and the           *)
(* operations built on it (src/src/lib/clearcore.ts, class ClearCore).     *)
(*                                                                         *)
(* Text is modelled as a sequence of tokens: one token per character,      *)
(* except that a command name ("GET_VERSION") is a single token.           *)
(* A promise created by sendCommand is one entry of `calls`; the chain     *)
(* this.commandQueue is the sequence itself, its tail being the current    *)
(* value of the field.                                                     *)
(***************************************************************************)
EXTENDS Integers, Sequences, FiniteSets, TLC

(***************************************************************************)
(* Bounds of the model.                                                    *)
(***************************************************************************)
\* number of sendCommand calls made on the dispatcher
MaxCalls == 3
\* number of lines the controller board puts on the wire
MaxLines == 2
\* number of flush callbacks due when the user calls resetBuffer, at most
MaxResets == 1

(***************************************************************************)
(* Program constants.                                                      *)
(***************************************************************************)
MAX_COMMAND_ID == 1000000
timeoutMs == 100

\* The exchanges a dispatcher has completed successfully before the window
\* the model observes: none (a fresh dispatcher), or one short of the
\* identifier wrap.
WarmUps == {0, MAX_COMMAND_ID - 1}

\* The command strings handed to sendCommand: that of motorsSetEStopPin(1).
Commands == { <<"MOTORS_SET_ESTOP_PIN", ";", "1", ";", "1">> }

(***************************************************************************)
(* Strings.                                                                *)
(***************************************************************************)
Digits == <<"0", "1", "2", "3", "4", "5", "6", "7", "8", "9">>

IsDigit(c) == \E d \in 1..10 : Digits[d] = c

DigitValue(c) == (CHOOSE d \in 1..10 : Digits[d] = c) - 1

\* White space as String.prototype.trim and parseInt see it: the WhiteSpace
\* and LineTerminator characters of the language.  Those that a string of
\* this module can hold are listed: space, CR, LF, TAB, FF, VT (U+000B),
\* NBSP (U+00A0), ZWNBSP (U+FEFF) and OGHAM SPACE MARK (U+1680); the others
\* (U+2000..U+200A, U+2028, U+2029, U+202F, U+205F, U+3000) are white space
\* as well and occur in no line of the model.
IsSpace(c) == c \in {" ", "\r", "\n", "\t", "\f", "", " ", "﻿", " "}

\* `${n}` for a non-negative integer n.
RECURSIVE NumberToString(_)
NumberToString(n) ==
  IF n < 10 THEN <<Digits[n + 1]>>
  ELSE NumberToString(n \div 10) \o <<Digits[(n % 10) + 1]>>

RECURSIVE TrimStart(_)
TrimStart(s) ==
  IF s # <<>> /\ IsSpace(Head(s)) THEN TrimStart(Tail(s)) ELSE s

RECURSIVE TrimEnd(_)
TrimEnd(s) ==
  IF s # <<>> /\ IsSpace(s[Len(s)]) THEN TrimEnd(SubSeq(s, 1, Len(s) - 1)) ELSE s

\* String.prototype.trim
Trim(s) == TrimEnd(TrimStart(s))

\* String.prototype.split(sep): the fields between the separators; the empty
\* string splits into one empty field.
RECURSIVE Split(_, _)
Split(s, sep) ==
  IF \A i \in 1..Len(s) : s[i] # sep THEN <<s>>
  ELSE LET k == CHOOSE i \in 1..Len(s) :
                    s[i] = sep /\ \A j \in 1..(i - 1) : s[j] # sep
       IN  <<SubSeq(s, 1, k - 1)>> \o Split(SubSeq(s, k + 1, Len(s)), sep)

\* The longest prefix of s made of decimal digits.
RECURSIVE DigitPrefix(_)
DigitPrefix(s) ==
  IF s # <<>> /\ IsDigit(Head(s)) THEN <<Head(s)>> \o DigitPrefix(Tail(s)) ELSE <<>>

RECURSIVE DigitsValue(_)
DigitsValue(d) ==
  IF d = <<>> THEN 0
  ELSE DigitsValue(SubSeq(d, 1, Len(d) - 1)) * 10 + DigitValue(d[Len(d)])

\* parseInt(s, 10): leading white space skipped, an optional sign, then the
\* longest run of digits; whatever follows is ignored; NaN without a digit.
\* The value is an integer here: the digit runs of the model stay below 2^31.
ParseInt(s) ==
  LET t   == TrimStart(s)
      neg == t # <<>> /\ Head(t) = "-"
      u   == IF t # <<>> /\ Head(t) \in {"-", "+"} THEN Tail(t) ELSE t
      d   == DigitPrefix(u)
  IN  IF d = <<>> THEN [nan |-> TRUE, val |-> 0]
      ELSE [nan |-> FALSE, val |-> IF neg THEN 0 - DigitsValue(d) ELSE DigitsValue(d)]

\* `${x}` for the result of parseInt.
ParsedToString(p) ==
  IF p.nan THEN <<"NaN">>
  ELSE IF p.val < 0 THEN <<"-">> \o NumberToString(0 - p.val)
  ELSE NumberToString(p.val)


\* `${n}` for an integer n of 32 bits, negative ones included.
IntToString(n) ==
  IF n >= 0 THEN NumberToString(n)
  ELSE LET r    == n % 10
           q    == n \div 10
           rest == IF r = 0 THEN 0 - q ELSE 0 - (q + 1)
           last == (10 - r) % 10
       IN  <<"-">> \o (IF rest = 0 THEN <<>> ELSE NumberToString(rest))
                  \o <<Digits[last + 1]>>

\* Array.prototype.join(sep)
RECURSIVE Join(_, _)
Join(fields, sep) ==
  IF fields = <<>> THEN <<>>
  ELSE IF Len(fields) = 1 THEN fields[1]
  ELSE fields[1] \o <<sep>> \o Join(Tail(fields), sep)

(***************************************************************************)
(* Resource selectors.  The bitwise operators of the language work on      *)
(* 32-bit signed integers: an integer is modelled by the set of the bits   *)
(* set in its two's complement.                                            *)
(***************************************************************************)
RECURSIVE Pow2(_)
Pow2(n) == IF n = 0 THEN 1 ELSE 2 * Pow2(n - 1)

\* 2^0 .. 2^30
PowersOf2 == [n \in 0..30 |-> Pow2(n)]

\* -2^31, the 32-bit integer with bit 31 alone
MinInt32 == (0 - 2147483647) - 1

\* bit b (0..31) of the 32-bit integer x
Bit(x, b) ==
  IF b = 31 THEN x < 0
  ELSE LET low == IF x < 0 THEN (x + 2147483647) + 1 ELSE x
       IN  (low \div PowersOf2[b]) % 2 = 1

RECURSIVE LowBits(_, _)
LowBits(bits, n) ==
  IF n < 0 THEN 0
  ELSE (IF n \in bits THEN PowersOf2[n] ELSE 0) + LowBits(bits, n - 1)

\* the 32-bit integer whose bits set are `bits`
Int32(bits) ==
  IF 31 \in bits THEN LowBits(bits, 30) + MinInt32 ELSE LowBits(bits, 30)

\* a | b
BitOr(a, b) == Int32({k \in 0..31 : Bit(a, k) \/ Bit(b, k)})

\* 1 << n: the shift count is n modulo 32
ShiftLeft1(n) == Int32({n % 32})

\* motors.reduce((acc, motor) => acc | (1 << motor), 0)
RECURSIVE Selector(_)
Selector(motors) ==
  IF motors = <<>> THEN 0
  ELSE BitOr(Selector(SubSeq(motors, 1, Len(motors) - 1)),
             ShiftLeft1(motors[Len(motors)]))

(***************************************************************************)
(* State.                                                                  *)
(***************************************************************************)
VARIABLES
  exited,            \* the process has ended (unhandled rejection or "error")
  isSerialPort,      \* isSerialPort(this.port): the transport can flush
  warmUp,            \* exchanges completed successfully before the window
  calls,             \* the promises sendCommand returned, in call order
  commandIdCounter,  \* this.commandIdCounter
  timers,            \* exchanges whose setTimeout is armed
  dataListeners,     \* exchanges whose dataListener is on this.parser
  errorListeners,    \* exchanges whose errorListener is on this.port
  flowing,           \* the parser has been given a "data" listener
  writes,            \* the port.write calls the transport has seen
  writeCallbacks,    \* exchanges whose port.write callback is still due
  flushes,           \* port.flush calls whose callback is still due
  osBuffer,          \* lines received by the transport, not yet read
  parserBuffer,      \* lines read by the port, not yet emitted by the parser
  linesSent,         \* lines the controller board has sent
  settleOrder,       \* the calls in the order their promises settled
  erred,             \* exchanges during which the port has emitted "error"
  enabledMotors,     \* this.enabledMotors, in insertion order
  ops,               \* the calls of enableMotors, disableMotors, disableAllMotors
  request,           \* a call of a domain operation: its name and arguments
  wire,              \* the command string that call hands to sendCommand
  reply,             \* the response sendCommand resolves that call with
  result             \* what that call returns

vars == <<exited, isSerialPort, warmUp, calls, commandIdCounter, timers, dataListeners,
          errorListeners, flowing, writes, writeCallbacks, flushes, osBuffer,
          parserBuffer, linesSent, settleOrder, erred, enabledMotors, ops,
          request, wire, reply, result>>

\* The state of one call of a domain operation, looked at on its own.
codec == <<request, wire, reply, result>>

NoId == -1
NoOutcome == [kind |-> "none"]

\* resolve(data.toString().trim())
Reply(line) == [kind |-> "reply", line |-> line]

\* new Error(`Command ID mismatch. Sent: ..., Received: .... Response: "..."`)
MismatchError(sent, received, data) ==
  [kind |-> "mismatch", sent |-> NumberToString(sent),
   received |-> ParsedToString(received), response |-> data]

\* new Error(`Command "${commandWithId}" timed out after ${timeoutMs}ms`)
TimeoutError(commandWithId) ==
  [kind |-> "timeout", command |-> commandWithId, after |-> NumberToString(timeoutMs)]

\* The errors the transport reports: by an "error" event, by the write callback.
PortError == [kind |-> "transport", code |-> "EIO"]
WriteError == [kind |-> "transport", code |-> "EWRITE"]

Settled(j) == calls[j].state \in {"fulfilled", "rejected"}
Running == { j \in 1..Len(calls) : calls[j].state = "running" }
Pending == { j \in 1..Len(calls) : ~Settled(j) }

\* `${currentCommandId};${command}`
CommandWithId(id, command) == NumberToString(id) \o <<";">> \o command

\* this.commandIdCounter++; this.commandIdCounter %= MAX_COMMAND_ID
NextCommandIdNoWrap(c) == c + 1
NextCommandId(c) == (c + 1) % MAX_COMMAND_ID

\* id !== currentCommandId, id being the result of parseInt
IdDiffersOnlyIfNaN(id, currentCommandId) == id.nan
IdDiffers(id, currentCommandId) == id.nan \/ id.val # currentCommandId

\* resolve and reject of the promise of call j: no effect once it is settled.
Resolve(j, line) ==
  IF calls[j].state = "running"
  THEN /\ calls' = [calls EXCEPT ![j].state = "fulfilled", ![j].outcome = Reply(line)]
       /\ settleOrder' = Append(settleOrder, j)
  ELSE UNCHANGED <<calls, settleOrder>>

Reject(j, err) ==
  IF calls[j].state = "running"
  THEN /\ calls' = [calls EXCEPT ![j].state = "rejected", ![j].outcome = err]
       /\ settleOrder' = Append(settleOrder, j)
  ELSE UNCHANGED <<calls, settleOrder>>

\* A dispatcher that has completed warmUp exchanges, each with its reply,
\* and is idle.
Idle ==
  /\ exited = FALSE
  /\ calls = <<>>
  /\ commandIdCounter = warmUp % MAX_COMMAND_ID
  /\ timers = {}
  /\ dataListeners = {}
  /\ errorListeners = {}
  /\ flowing = (warmUp > 0)
  /\ writes = <<>>
  /\ writeCallbacks = {}
  /\ flushes = 0
  /\ osBuffer = <<>>
  /\ parserBuffer = <<>>
  /\ linesSent = 0
  /\ settleOrder = <<>>
  /\ erred = {}
  /\ enabledMotors = <<>>
  /\ ops = <<>>

\* No call of a domain operation is looked at on its own.
NoRequest == [name |-> "none", mode |-> 0, indices |-> <<>>, params |-> <<>>]
NoCodec ==
  /\ request = NoRequest
  /\ wire = <<>>
  /\ reply = <<>>
  /\ result = <<>>

\* new ClearCore(port)
Init ==
  /\ isSerialPort \in BOOLEAN
  /\ warmUp = 0
  /\ Idle
  /\ NoCodec

\* A dispatcher that is fresh or about to wrap its identifiers.
InitWarm ==
  /\ isSerialPort \in BOOLEAN
  /\ warmUp \in WarmUps
  /\ Idle
  /\ NoCodec

(***************************************************************************)
(* sendCommand: the call itself only extends the chain.                    *)
(***************************************************************************)
Enqueue(command) ==
  /\ ~exited
  /\ Len(calls) < MaxCalls
  /\ calls' = Append(calls, [command |-> command, state |-> "queued", id |-> NoId,
                             outcome |-> NoOutcome])
  /\ UNCHANGED <<exited, isSerialPort, warmUp, commandIdCounter, timers, dataListeners,
                 errorListeners, flowing, writes, writeCallbacks, flushes, osBuffer,
                 parserBuffer, linesSent, settleOrder>>

\* A call of sendCommand by an operation that keeps no state of its own.
SendCommand(command) ==
  /\ Enqueue(command)
  /\ UNCHANGED <<enabledMotors, ops, codec, erred>>

\* commandQueue.then(onFulfilled): onFulfilled runs once the promise before
\* it in the chain is fulfilled (the chain starts as Promise.resolve()).
CanStartUnchained(j) == calls[j].state = "queued"
CanStartWhenIdle(j) ==
  /\ calls[j].state = "queued"
  /\ \A i \in 1..Len(calls) : i # j => calls[i].state \in {"queued", "fulfilled"}
CanStart(j) ==
  /\ calls[j].state = "queued"
  /\ IF j = 1 THEN TRUE ELSE calls[j - 1].state = "fulfilled"

\* The executor of the promise of one exchange, up to the call of
\* port.write: what it does to the dispatcher.
Executor(j) ==
  /\ ~exited
  /\ j \in 1..Len(calls)
  /\ CanStart(j)
  /\ LET currentCommandId == commandIdCounter
         commandWithId == CommandWithId(currentCommandId, calls[j].command)
         flushing == IF isSerialPort THEN flushes + 1 ELSE flushes
     IN  /\ flushes' = flushing
         /\ commandIdCounter' = NextCommandId(commandIdCounter)
         /\ calls' = [calls EXCEPT ![j].state = "running", ![j].id = currentCommandId]
         /\ timers' = timers \cup {j}
         /\ dataListeners' = dataListeners \cup {j}
         /\ flowing' = TRUE
         /\ errorListeners' = errorListeners \cup {j}
         /\ writes' = Append(writes, [call |-> j, id |-> currentCommandId,
                                      line |-> commandWithId \o <<"\n">>,
                                      flushing |-> flushing])
         /\ writeCallbacks' = writeCallbacks \cup {j}
  /\ UNCHANGED <<enabledMotors, ops, erred, exited, isSerialPort, warmUp, osBuffer,
                 settleOrder>>

\* The executor runs on a transport that takes the line and answers, if it
\* does, later.
StartExchange(j) ==
  /\ Executor(j)
  /\ UNCHANGED <<codec, parserBuffer, linesSent>>

\* A promise made by then(onFulfilled) alone takes over the rejection of the
\* promise before it; onFulfilled is not called.
CanRejectQueuedBehindAny(j) ==
  /\ calls[j].state = "queued"
  /\ \E i \in 1..(j - 1) : calls[i].state = "rejected"
CanRejectQueued(j) ==
  /\ calls[j].state = "queued"
  /\ j > 1
  /\ calls[j - 1].state = "rejected"

RejectQueued(j) ==
  /\ ~exited
  /\ j \in 1..Len(calls)
  /\ CanRejectQueued(j)
  /\ calls' = [calls EXCEPT ![j].state = "rejected", ![j].outcome = calls[j - 1].outcome]
  /\ settleOrder' = Append(settleOrder, j)
  /\ UNCHANGED <<enabledMotors, ops, codec, erred, exited, isSerialPort, warmUp, commandIdCounter,
                 timers, dataListeners, errorListeners, flowing, writes,
                 writeCallbacks, flushes, osBuffer, parserBuffer, linesSent>>


(***************************************************************************)
(* The handlers of one exchange.                                           *)
(***************************************************************************)
\* dataListener: called by the parser with one line.
DataListener(j, data) ==
  LET id == ParseInt(Split(Trim(data), ";")[1])
  IN  /\ timers' = timers \ {j}
      /\ errorListeners' = errorListeners \ {j}
      /\ IF IdDiffers(id, calls[j].id)
         THEN Reject(j, MismatchError(calls[j].id, id, data))
         ELSE Resolve(j, Trim(data))

\* errorListener that clears the exchange and leaves its promise alone.
ErrorListenerSilent(js, err) ==
  /\ timers' = timers \ js
  /\ dataListeners' = dataListeners \ js
  /\ UNCHANGED <<calls, settleOrder>>

\* errorListener of the exchanges in js, called with err: by the port's
\* "error" event or by the write callback.
ErrorListener(js, err) ==
  /\ timers' = timers \ js
  /\ dataListeners' = dataListeners \ js
  /\ IF js \cap Running # {}
     THEN LET j == CHOOSE j \in js : j \in Running
          IN  Reject(j, err)
     ELSE UNCHANGED <<calls, settleOrder>>

\* The callback given to setTimeout.
Timeout(j) ==
  /\ ~exited
  /\ j \in timers
  /\ timers' = timers \ {j}
  /\ dataListeners' = dataListeners \ {j}
  /\ errorListeners' = errorListeners \ {j}
  /\ Reject(j, TimeoutError(CommandWithId(calls[j].id, calls[j].command)))
  /\ UNCHANGED <<enabledMotors, ops, codec, erred, exited, isSerialPort, warmUp, commandIdCounter,
                 flowing, writes, writeCallbacks, flushes, osBuffer, parserBuffer,
                 linesSent>>

\* A write callback that drops the error it is called with.
WriteCallbackIgnored(j, err) ==
  /\ ~exited
  /\ j \in writeCallbacks
  /\ writeCallbacks' = writeCallbacks \ {j}
  /\ UNCHANGED <<calls, settleOrder, timers, dataListeners>>
  /\ UNCHANGED <<enabledMotors, ops, codec, erred, exited, isSerialPort, warmUp, commandIdCounter,
                 errorListeners, flowing, writes, flushes, osBuffer, parserBuffer,
                 linesSent>>

\* The callback given to port.write, called with an error.  Called without
\* one it does nothing, so that call is not a step of the model.
WriteCallback(j, err) ==
  /\ ~exited
  /\ j \in writeCallbacks
  /\ writeCallbacks' = writeCallbacks \ {j}
  /\ ErrorListener({j}, err)
  /\ UNCHANGED <<enabledMotors, ops, codec, erred, exited, isSerialPort, warmUp, commandIdCounter,
                 errorListeners, flowing, writes, flushes, osBuffer, parserBuffer,
                 linesSent>>

\* The exchange the transport is in: the one whose command line was written
\* last, until its promise is rejected.
CurrentExchange ==
  IF writes = <<>> THEN {}
  ELSE { j \in {writes[Len(writes)].call} : calls[j].state \in {"running", "fulfilled"} }

\* The port emits "error": every listener registered with once is removed
\* and called.
ErrorEvent ==
  /\ ~exited
  /\ errorListeners # {}
  /\ errorListeners' = {}
  /\ erred' = erred \cup CurrentExchange
  /\ ErrorListener(errorListeners, PortError)
  /\ UNCHANGED <<enabledMotors, ops, codec, exited, isSerialPort, warmUp, commandIdCounter,
                 flowing, writes, writeCallbacks, flushes, osBuffer, parserBuffer,
                 linesSent>>

\* The port emits "error" while no exchange listens. With a listener of
\* somebody else on the port (connect() leaves one on a SerialPort it has
\* waited for) the event is heard and the process goes on; with no listener
\* at all (a plain Duplex, a SerialPort that was open at connect()) emit
\* throws and the process ends.
ErrorEventUnheard(listened) ==
  /\ ~exited
  /\ errorListeners = {}
  /\ listened => isSerialPort
  /\ listened => ~(CurrentExchange \subseteq erred)
  /\ erred' = erred \cup CurrentExchange
  /\ exited' = ~listened
  /\ UNCHANGED <<enabledMotors, ops, codec, isSerialPort, warmUp, calls,
                 commandIdCounter, timers, dataListeners, errorListeners, flowing,
                 writes, writeCallbacks, flushes, osBuffer, parserBuffer, linesSent,
                 settleOrder>>

(***************************************************************************)
(* The transport and the controller board.                                 *)
(***************************************************************************)
\* A command string: its name and the numbers behind it.
Command(name, numbers) ==
  <<name, ";">> \o Join([k \in 1..Len(numbers) |-> IntToString(numbers[k])], ";")

\* The command strings the stream of the tests knows.
TestStreamCommands ==
  { Command("GET_VERSION", <<0>>),
    Command("EXPANSION_BOARDS_STATE", <<0>>),
    Command("MOTORS_STATE", <<1, 5>>),
    Command("MOTORS_ENABLE", <<1, 5>>),
    Command("MOTORS_MOVE", <<4, 1, 100, 1000, 10000>>),
    Command("MOTORS_HOME", <<1, 5>>),
    Command("MOTORS_SET_VELOCITY", <<3, 1, 1000, 10000>>),
    Command("MOTORS_STOP_ABRUPT", <<1, 5>>),
    Command("MOTORS_SET_ESTOP_PIN", <<1, 1>>),
    Command("MOTORS_ENABLE", <<1, 0>>),
    Command("PINS_MODE_SET", <<2, 5, 1>>),
    Command("DSENSORS_STATE", <<1, 5>>),
    Command("ASENSORS_STATE", <<1, 5>>),
    Command("DPINS_SET", <<3, 5, 1, 0>>) }

\* The commands that stream answers with fields behind the identifier and
\* the status, and those fields.
TestStreamPayloads ==
  { [command |-> Command("GET_VERSION", <<0>>),
     fields  |-> [k \in 1..20 |-> NumberToString(k)]],
    [command |-> Command("EXPANSION_BOARDS_STATE", <<0>>),
     fields  |-> [k \in 1..2 |-> NumberToString(<<2, 16>>[k])]],
    [command |-> Command("MOTORS_STATE", <<1, 5>>),
     fields  |-> [k \in 1..14 |->
                   NumberToString(<<1, 1, 1, 0, 1, 0, 100, 1, 0, 1, 0, 1, 0, 200>>[k])]],
    [command |-> Command("DSENSORS_STATE", <<1, 5>>),
     fields  |-> [k \in 1..2 |-> NumberToString(<<1, 0>>[k])]],
    [command |-> Command("ASENSORS_STATE", <<1, 5>>),
     fields  |-> [k \in 1..2 |-> NumberToString(<<100, 200>>[k])]] }

\* The fields that stream puts behind the identifier and the status when it
\* answers a command.
TestStreamPayload(command) ==
  IF \E a \in TestStreamPayloads : a.command = command
  THEN (CHOOSE a \in TestStreamPayloads : a.command = command).fields
  ELSE <<>>

\* TestStream._write: what the stream pushes when it is written `chunk`.  It
\* answers the command lines it knows, written with identifier 0, and
\* nothing else: <<>> stands for no push.
TestStreamPush(chunk) ==
  IF \E command \in TestStreamCommands : chunk = <<"0", ";">> \o command \o <<"\n">>
  THEN LET command == SubSeq(chunk, 3, Len(chunk) - 1)
       IN  Join(<< <<"0">>, <<"0">> >> \o TestStreamPayload(command), ";")
             \o <<";", "\n">>
  ELSE <<>>

\* The line a controller board answers a command with: the identifier of
\* the command line, status 0, the payload, each followed by ';'.  For the
\* identifier 0 and a command the stream of the tests knows it is the line
\* that stream pushes, without the "\n" the parser takes off.
ReplyLine(id, command) ==
  Join(<<NumberToString(id), <<"0">> >> \o TestStreamPayload(command), ";") \o <<";">>

\* The replies to the command lines written so far.
Replies ==
  { ReplyLine(writes[k].id, calls[writes[k].call].command) : k \in 1..Len(writes) }

\* Lines that answer no command: one that reads as identifier 0 once it is
\* trimmed and parsed (" 0x;0\r"), one without an identifier ("x;0").
StrayLines == { <<" ", "0", "x", ";", "0", "\r">>, <<"x", ";", "0">> }

\* A line arrives at the transport.  A serial port holds it in the buffer of
\* the operating system until the port reads it; a plain Duplex stream
\* pushes it to the parser.  What arrives once the process has ended is seen
\* by nobody.
Deliver(line) ==
  /\ ~exited
  /\ linesSent < MaxLines
  /\ linesSent' = linesSent + 1
  /\ IF isSerialPort
     THEN osBuffer' = Append(osBuffer, line) /\ UNCHANGED parserBuffer
     ELSE parserBuffer' = Append(parserBuffer, line) /\ UNCHANGED osBuffer
  /\ UNCHANGED <<enabledMotors, ops, codec, erred, exited, isSerialPort, warmUp, calls,
                 commandIdCounter, timers, dataListeners, errorListeners, flowing,
                 writes, writeCallbacks, flushes, settleOrder>>

\* The board sends a line: a reply to a command it has been sent (once more
\* or late, too), or a stray line.
DeviceSend(line) ==
  /\ line \in Replies \cup StrayLines
  /\ Deliver(line)

\* The port reads what the transport received and pipes it to the parser.
PortRead ==
  /\ ~exited
  /\ osBuffer # <<>>
  /\ osBuffer' = Tail(osBuffer)
  /\ parserBuffer' = Append(parserBuffer, Head(osBuffer))
  /\ UNCHANGED <<enabledMotors, ops, codec, erred, exited, isSerialPort, warmUp, calls,
                 commandIdCounter, timers, dataListeners, errorListeners, flowing,
                 writes, writeCallbacks, flushes, linesSent, settleOrder>>

\* The parser emits "data" with its next line: the listener registered with
\* once is removed and called; without a listener the line is lost.
ParserData ==
  /\ ~exited
  /\ flowing
  /\ parserBuffer # <<>>
  /\ parserBuffer' = Tail(parserBuffer)
  /\ IF dataListeners # {}
     THEN LET j == CHOOSE j \in dataListeners : TRUE
          IN  /\ dataListeners' = dataListeners \ {j}
              /\ DataListener(j, Head(parserBuffer))
     ELSE UNCHANGED <<calls, settleOrder, timers, dataListeners, errorListeners>>
  /\ UNCHANGED <<enabledMotors, ops, codec, erred, exited, isSerialPort, warmUp, commandIdCounter,
                 flowing, writes, writeCallbacks, flushes, osBuffer, linesSent>>

\* resetBuffer(), called by the user of the driver: on a serial port it
\* calls port.flush and returns a promise settled by the callback; on a plain
\* Duplex stream it returns a resolved promise and changes nothing.
ResetBuffer ==
  /\ ~exited
  /\ isSerialPort
  /\ flushes < MaxResets
  /\ flushes' = flushes + 1
  /\ UNCHANGED <<enabledMotors, ops, codec, erred, exited, isSerialPort, warmUp, calls,
                 commandIdCounter, timers, dataListeners, errorListeners, flowing,
                 writes, writeCallbacks, osBuffer, parserBuffer, linesSent,
                 settleOrder>>

\* The callback given to port.flush by resetBuffer.  Without an error the
\* transport has dropped what it had received and not yet handed over, and
\* the promise of resetBuffer is resolved.  With an error that promise is
\* rejected; sendCommand neither awaits nor catches it, so the rejection is
\* unhandled, and the process ends (the default of the runtime) or goes on
\* (a handler of unhandled rejections is installed, or the caller of
\* resetBuffer catches it).
FlushDone(err, exits) ==
  /\ ~exited
  /\ flushes > 0
  /\ exits => err
  /\ flushes' = flushes - 1
  /\ osBuffer' = IF err THEN osBuffer ELSE <<>>
  /\ exited' = exits
  /\ UNCHANGED <<enabledMotors, ops, codec, erred, isSerialPort, warmUp, calls,
                 commandIdCounter, timers, dataListeners, errorListeners, flowing,
                 writes, writeCallbacks, parserBuffer, linesSent, settleOrder>>

\* What happens apart from calls of sendCommand. The rejection of a failed
\* flush is unhandled: the process ends, or goes on where a handler of
\* unhandled rejections is installed.
Handlers ==
  \/ \E j \in 1..MaxCalls : StartExchange(j)
  \/ \E j \in 1..MaxCalls : RejectQueued(j)
  \/ \E j \in 1..MaxCalls : Timeout(j)
  \/ \E j \in 1..MaxCalls : WriteCallback(j, WriteError)
  \/ ErrorEvent
  \/ \E line \in Replies \cup StrayLines : DeviceSend(line)
  \/ PortRead
  \/ ParserData
  \/ \E err, exits \in BOOLEAN : FlushDone(err, exits)

\* Callers call sendCommand whenever they like.
Next ==
  \/ \E command \in Commands : SendCommand(command)
  \/ Handlers

\* A caller that awaits each call before it makes the next one.
SendCommandAwaited(command) ==
  /\ Pending = {}
  /\ SendCommand(command)

NextAwaited ==
  \/ \E command \in Commands : SendCommandAwaited(command)
  \/ Handlers

Spec == Init /\ [][Next]_vars

\* The dispatcher used by a caller that awaits every call.
AwaitSpec == Init /\ [][NextAwaited]_vars

\* The same dispatcher observed from a later point of its life.
WarmSpec == InitWarm /\ [][Next]_vars

\* The dispatcher on a port that emits "error" at any time.
NextErrors ==
  \/ Next
  \/ \E listened \in BOOLEAN : ErrorEventUnheard(listened)

ErrorSpec == Init /\ [][NextErrors]_vars

\* The dispatcher of a user who calls resetBuffer as well.
NextResets ==
  \/ Next
  \/ ResetBuffer

ResetSpec == Init /\ [][NextResets]_vars

\* Timers fire, and the jobs of the promise chain run, as long as the
\* process lives.
FairSpec ==
  /\ Spec
  /\ \A j \in 1..MaxCalls :
       /\ WF_vars(StartExchange(j))
       /\ WF_vars(RejectQueued(j))
       /\ WF_vars(Timeout(j))


(***************************************************************************)
(* The operations on the enabled motors.  An async function runs up to its *)
(* first await within the call: the loop over this.enabledMotors, the      *)
(* selector and the call of sendCommand are one step.                      *)
(***************************************************************************)
\* The argument lists the callers of the model pass.
MotorLists == { <<0>>, <<2>>, <<0, 2>> }

\* Set.prototype.add: a Set keeps the order of insertion.
SetAdd(set, x) ==
  IF \E i \in 1..Len(set) : set[i] = x THEN set ELSE Append(set, x)

\* Set.prototype.delete
SetDelete(set, x) == SelectSeq(set, LAMBDA y : y # x)

\* for (const motor of motors) this.enabledMotors.add(motor)
RECURSIVE AddAll(_, _)
AddAll(set, motors) ==
  IF motors = <<>> THEN set ELSE AddAll(SetAdd(set, Head(motors)), Tail(motors))

\* for (const motor of motors) this.enabledMotors.delete(motor)
RECURSIVE DeleteAll(_, _)
DeleteAll(set, motors) ==
  IF motors = <<>> THEN set ELSE DeleteAll(SetDelete(set, Head(motors)), Tail(motors))

\* setEnabledMotors(...motors): the command it hands to sendCommand
SetEnabledMotors(motors) ==
  <<"MOTORS_ENABLE", ";", "1", ";">> \o IntToString(Selector(motors))

\* enableMotors that sends the motors of its own arguments.
EnableMotorsGivenOnly(motors) ==
  /\ enabledMotors' = AddAll(enabledMotors, motors)
  /\ ops' = Append(ops, [name |-> "enableMotors", motors |-> motors])
  /\ Enqueue(SetEnabledMotors(motors))
  /\ UNCHANGED <<codec, erred>>

\* enableMotors that sends its additions and does not keep them.
EnableMotorsDeferred(motors) ==
  /\ ops' = Append(ops, [name |-> "enableMotors", motors |-> motors])
  /\ Enqueue(SetEnabledMotors(AddAll(enabledMotors, motors)))
  /\ UNCHANGED <<enabledMotors, codec, erred>>

EnableMotors(motors) ==
  LET enabled == AddAll(enabledMotors, motors)
  IN  /\ enabledMotors' = enabled
      /\ ops' = Append(ops, [name |-> "enableMotors", motors |-> motors])
      /\ Enqueue(SetEnabledMotors(enabled))
      /\ UNCHANGED <<codec, erred>>

\* disableMotors that builds its command before it updates the set.
DisableMotorsStale(motors) ==
  /\ enabledMotors' = DeleteAll(enabledMotors, motors)
  /\ ops' = Append(ops, [name |-> "disableMotors", motors |-> motors])
  /\ Enqueue(SetEnabledMotors(enabledMotors))
  /\ UNCHANGED <<codec, erred>>

DisableMotors(motors) ==
  LET enabled == DeleteAll(enabledMotors, motors)
  IN  /\ enabledMotors' = enabled
      /\ ops' = Append(ops, [name |-> "disableMotors", motors |-> motors])
      /\ Enqueue(SetEnabledMotors(enabled))
      /\ UNCHANGED <<codec, erred>>

\* disableAllMotors that forgets the enabled motors.
DisableAllMotorsClearing ==
  /\ enabledMotors' = <<>>
  /\ ops' = Append(ops, [name |-> "disableAllMotors", motors |-> <<>>])
  /\ Enqueue(<<"MOTORS_ENABLE", ";", "1", ";", "0">>)
  /\ UNCHANGED <<codec, erred>>

DisableAllMotors ==
  /\ ops' = Append(ops, [name |-> "disableAllMotors", motors |-> <<>>])
  /\ Enqueue(<<"MOTORS_ENABLE", ";", "1", ";", "0">>)
  /\ UNCHANGED <<enabledMotors, codec, erred>>

\* A board at the other end of the transport that answers the command
\* lines in the order it receives them, each once and some time after the
\* write, as long as it answers at all.
BoardAnswers ==
  /\ Len(writes) > linesSent
  /\ LET w == writes[linesSent + 1]
     IN  DeviceSend(ReplyLine(w.id, calls[w.call].command))

\* new ClearCore(port), the port a plain Duplex stream with such a board
\* behind it.
InitMotors ==
  /\ isSerialPort = FALSE
  /\ warmUp = 0
  /\ Idle
  /\ NoCodec

\* Callers call the three operations whenever they like; an exchange ends
\* with the answer of the board or with its timeout.
NextMotors ==
  \/ \E motors \in MotorLists : EnableMotors(motors)
  \/ \E motors \in MotorLists : DisableMotors(motors)
  \/ DisableAllMotors
  \/ \E j \in 1..MaxCalls : StartExchange(j)
  \/ \E j \in 1..MaxCalls : RejectQueued(j)
  \/ \E j \in 1..MaxCalls : Timeout(j)
  \/ BoardAnswers
  \/ ParserData

MotorSpec == InitMotors /\ [][NextMotors]_vars

\* The argument lists of a caller that names one motor at a time.
OneMotorLists == { <<0>>, <<2>> }

\* A caller that awaits each call of enableMotors and disableMotors before
\* it makes the next one, on a transport that fails too: a write fails, the
\* port emits "error", the board sends a line without an identifier.
NextMotorFailures ==
  \/ Pending = {} /\ \E motors \in OneMotorLists : EnableMotors(motors)
  \/ Pending = {} /\ \E motors \in OneMotorLists : DisableMotors(motors)
  \/ \E j \in 1..MaxCalls : StartExchange(j)
  \/ \E j \in 1..MaxCalls : RejectQueued(j)
  \/ \E j \in 1..MaxCalls : Timeout(j)
  \/ \E j \in 1..MaxCalls : WriteCallback(j, WriteError)
  \/ ErrorEvent
  \/ BoardAnswers
  \/ DeviceSend(<<"x", ";", "0">>)
  \/ ParserData

MotorFailureSpec == InitMotors /\ [][NextMotorFailures]_vars

(***************************************************************************)
(* The domain operations, each looked at on its own: the command string it *)
(* hands to sendCommand, and what it makes of the response sendCommand     *)
(* resolves with.                                                          *)
(***************************************************************************)
\* number of motors, pins or sensors one call names
MaxTargets == 2

\* The indices the callers of the model name.
Indices == {0, 2, 31}

\* The lists of at most n elements of S.
Lists(S, n) == UNION { [1..k -> S] : k \in 0..n }

MoveParameters ==
  [id : Indices, steps : {100, -50}, velocity : {1000}, acceleration : {10000}]
VelocityParameters == [id : Indices, velocity : {1000}, acceleration : {10000}]
PinWriteParameters == [id : Indices, value : BOOLEAN]
PinModes == 0..3

IndexOperations ==
  {"readMotors", "readDigitalSensors", "readAnalogSensors", "setMotorsHome",
   "stopMotors"}

ReadOperations == {"readMotors", "readDigitalSensors", "readAnalogSensors"}

\* A call: the name of the operation and its arguments, which are a mode
\* (setPinsMode), indices, or parameter records.
Request(name, mode, indices, params) ==
  [name |-> name, mode |-> mode, indices |-> indices, params |-> params]

\* The calls of the model.
Requests ==
  { Request(n, 0, a, <<>>) : n \in IndexOperations, a \in Lists(Indices, MaxTargets) }
  \cup { Request("moveMotors", 0, <<>>, a) : a \in Lists(MoveParameters, MaxTargets) }
  \cup { Request("setMotorsVelocity", 0, <<>>, a) :
           a \in Lists(VelocityParameters, MaxTargets) }
  \cup { Request("writeDigitalPins", 0, <<>>, a) :
           a \in Lists(PinWriteParameters, MaxTargets) }
  \cup { Request("setPinsMode", mode, a, <<>>) :
           mode \in PinModes, a \in Lists(Indices, MaxTargets) }
  \cup { Request("motorsSetEStopPin", 0, <<pin>>, <<>>) : pin \in Indices }
  \cup { Request(n, 0, <<>>, <<>>) :
           n \in {"getVersion", "expansionBoardsState", "disableAllMotors"} }

\* motors.map((m) => m.id)
Ids(targets) == [k \in 1..Len(targets) |-> targets[k].id]

\* `MOTORS_STATE;1;${selector}` and the commands of the same shape
SelectorCommand(name, indices) ==
  <<name, ";", "1", ";">> \o IntToString(Selector(indices))

\* moveMotors with the fields behind the selector counted.
MoveMotorsCommandCountingArgs(motors) ==
  LET args == Join([k \in 1..Len(motors) |->
                      IntToString(motors[k].steps) \o <<";">>
                        \o IntToString(motors[k].velocity) \o <<";">>
                        \o IntToString(motors[k].acceleration)], ";")
  IN  <<"MOTORS_MOVE", ";">> \o IntToString(Len(motors) * 3) \o <<";">>
        \o IntToString(Selector(Ids(motors))) \o <<";">> \o args

MoveMotorsCommand(motors) ==
  LET selector == Selector(Ids(motors))
      args == Join([k \in 1..Len(motors) |->
                      IntToString(motors[k].steps) \o <<";">>
                        \o IntToString(motors[k].velocity) \o <<";">>
                        \o IntToString(motors[k].acceleration)], ";")
  IN  <<"MOTORS_MOVE", ";">> \o IntToString(1 + Len(motors) * 3) \o <<";">>
        \o IntToString(selector) \o <<";">> \o args

SetMotorsVelocityCommand(motors) ==
  LET selector == Selector(Ids(motors))
      args == Join([k \in 1..Len(motors) |->
                      IntToString(motors[k].velocity) \o <<";">>
                        \o IntToString(motors[k].acceleration)], ";")
  IN  <<"MOTORS_SET_VELOCITY", ";">> \o IntToString(1 + Len(motors) * 2) \o <<";">>
        \o IntToString(selector) \o <<";">> \o args

SetPinsModeCommand(mode, pins) ==
  <<"PINS_MODE_SET", ";", "2", ";">> \o IntToString(Selector(pins)) \o <<";">>
    \o IntToString(mode)

WriteDigitalPinsCommand(pins) ==
  LET selector == Selector(Ids(pins))
      values == Join([k \in 1..Len(pins) |->
                        IF pins[k].value THEN <<"1">> ELSE <<"0">>], ";")
  IN  <<"DPINS_SET", ";">> \o IntToString(1 + Len(pins)) \o <<";">>
        \o IntToString(selector) \o <<";">> \o values

\* The command string a call hands to sendCommand.
CommandOf(r) ==
  CASE r.name = "getVersion" -> <<"GET_VERSION", ";", "0">>
    [] r.name = "expansionBoardsState" -> <<"EXPANSION_BOARDS_STATE", ";", "0">>
    [] r.name = "readMotors" -> SelectorCommand("MOTORS_STATE", r.indices)
    [] r.name = "moveMotors" -> MoveMotorsCommand(r.params)
    [] r.name = "setMotorsHome" -> SelectorCommand("MOTORS_HOME", r.indices)
    [] r.name = "setMotorsVelocity" -> SetMotorsVelocityCommand(r.params)
    [] r.name = "stopMotors" -> SelectorCommand("MOTORS_STOP_ABRUPT", r.indices)
    [] r.name = "motorsSetEStopPin" ->
         <<"MOTORS_SET_ESTOP_PIN", ";", "1", ";">> \o IntToString(r.indices[1])
    [] r.name = "disableAllMotors" -> <<"MOTORS_ENABLE", ";", "1", ";", "0">>
    [] r.name = "setPinsMode" -> SetPinsModeCommand(r.mode, r.indices)
    [] r.name = "readDigitalSensors" -> SelectorCommand("DSENSORS_STATE", r.indices)
    [] r.name = "readAnalogSensors" -> SelectorCommand("ASENSORS_STATE", r.indices)
    [] r.name = "writeDigitalPins" -> WriteDigitalPinsCommand(r.params)

\* Array.prototype.slice(2, -1): without the first two and the last element.
SliceFrom2DropLast(fields) ==
  IF Len(fields) < 4 THEN <<>> ELSE SubSeq(fields, 3, Len(fields) - 1)

\* response.split(";").slice(2, -1)
Payload(response) == SliceFrom2DropLast(Split(response, ";"))

\* parts[k] ?? "0", the parts counted from 1
OrZero(parts, k) == IF k <= Len(parts) THEN parts[k] ELSE <<"0">>

\* parts[k] === "1"
IsOne(parts, k) == k <= Len(parts) /\ parts[k] = <<"1">>

\* The MotorState readMotors builds from the seven parts at i.
MotorStateAt(parts, i) ==
  [isWritable |-> IsOne(parts, i),
   enabled |-> IsOne(parts, i + 1),
   stepsComplete |-> IsOne(parts, i + 2),
   isInHardwareFault |-> IsOne(parts, i + 3),
   hlfbState |-> ParseInt(OrZero(parts, i + 4)),
   hlfbMode |-> ParseInt(OrZero(parts, i + 5)),
   position |-> ParseInt(OrZero(parts, i + 6))]

\* for (let i = 0; i < parts.length; i += 7) states.push(...)
RECURSIVE MotorStates(_, _)
MotorStates(parts, i) ==
  IF i > Len(parts) THEN <<>>
  ELSE <<MotorStateAt(parts, i)>> \o MotorStates(parts, i + 7)

\* What each read operation makes of the parts of the response.
DecodeParts(name, parts) ==
  CASE name = "readMotors" -> MotorStates(parts, 1)
    [] name = "readDigitalSensors" -> [k \in 1..Len(parts) |-> parts[k] = <<"1">>]
    [] name = "readAnalogSensors" -> [k \in 1..Len(parts) |-> ParseInt(parts[k])]

\* Array.prototype.join("")
RECURSIVE Concat(_)
Concat(fields) == IF fields = <<>> THEN <<>> ELSE Head(fields) \o Concat(Tail(fields))

\* What a call returns, given the response of sendCommand.
ResultOf(r, response) ==
  LET parts == Split(response, ";")
  IN  CASE r.name \in {"readMotors", "readDigitalSensors", "readAnalogSensors"} ->
             DecodeParts(r.name, Payload(response))
        [] r.name = "getVersion" ->
             Concat(IF Len(parts) < 3 THEN <<>>
                    ELSE SubSeq(parts, 3, IF Len(parts) < 22 THEN Len(parts) ELSE 22))
        [] r.name = "expansionBoardsState" ->
             [nrBoards |-> ParseInt(OrZero(parts, 3)), nrPorts |-> ParseInt(OrZero(parts, 4))]
        [] OTHER -> "undefined"

(***************************************************************************)
(* One call of a domain operation on a fresh dispatcher whose transport is *)
(* the stream of the tests.                                                *)
(***************************************************************************)
RECURSIVE NegDigitsValue(_)
NegDigitsValue(d) ==
  IF d = <<>> THEN 0
  ELSE NegDigitsValue(SubSeq(d, 1, Len(d) - 1)) * 10 - DigitValue(d[Len(d)])

\* The bits of a selector field, read as an integer of 32 bits.
BoardBits(field) ==
  LET value == IF field # <<>> /\ Head(field) = "-"
               THEN NegDigitsValue(Tail(field)) ELSE DigitsValue(field)
  IN  { b \in 0..31 : Bit(value, b) }

\* new TestStream(); new ClearCore(stream); the caller is about to call one
\* operation.
InitCodec ==
  /\ isSerialPort = FALSE
  /\ warmUp = 0
  /\ Idle
  /\ request \in Requests
  /\ wire = <<>>
  /\ reply = <<>>
  /\ result = <<>>

dispatcher == <<exited, isSerialPort, warmUp, calls, commandIdCounter, timers, dataListeners,
                errorListeners, flowing, writes, writeCallbacks, flushes, osBuffer,
                parserBuffer, linesSent, settleOrder, erred, enabledMotors, ops>>

\* The operation is called: it builds its command and calls sendCommand
\* with it, which extends the chain; then it waits.
CallOperation ==
  /\ wire = <<>>
  /\ wire' = CommandOf(request)
  /\ Enqueue(CommandOf(request))
  /\ ops' = IF request.name = "disableAllMotors"
            THEN Append(ops, [name |-> "disableAllMotors", motors |-> <<>>])
            ELSE ops
  /\ UNCHANGED <<enabledMotors, erred, request, reply, result>>

\* The line a push of the stream becomes in the parser: the parser cuts at
\* the "\n" and takes it off.
ParsedLine(push) == SubSeq(push, 1, Len(push) - 1)

\* The executor runs on the stream of the tests: port.write calls
\* TestStream._write within the executor, and the stream pushes its answer,
\* if it knows the line, before write returns.  Only a line with identifier
\* 0 is known.
TestStreamWrite(j) ==
  /\ Executor(j)
  /\ LET push == TestStreamPush(CommandWithId(commandIdCounter, calls[j].command)
                                  \o <<"\n">>)
     IN  IF push = <<>>
         THEN UNCHANGED <<parserBuffer, linesSent>>
         ELSE /\ parserBuffer' = Append(parserBuffer, ParsedLine(push))
              /\ linesSent' = linesSent + 1
  /\ UNCHANGED codec

\* sendCommand has resolved, and the operation returns: `reply` holds the
\* response it was resumed with, `result` the value it returns.
ReturnOperation ==
  /\ ~exited
  /\ wire # <<>>
  /\ result = <<>>
  /\ calls[1].state = "fulfilled"
  /\ reply' = calls[1].outcome.line
  /\ result' = <<ResultOf(request, calls[1].outcome.line)>>
  /\ UNCHANGED <<dispatcher, request, wire>>

\* sendCommand has rejected: the await throws, and the promise of the
\* operation is rejected with the same error; `result` holds it.
ThrowOperation ==
  /\ ~exited
  /\ wire # <<>>
  /\ result = <<>>
  /\ calls[1].state = "rejected"
  /\ result' = <<calls[1].outcome>>
  /\ UNCHANGED <<dispatcher, request, wire, reply>>

\* A line the stream has pushed reaches the parser in the turn of the event
\* loop it was pushed in, before any timer fires.
NextCodec ==
  \/ CallOperation
  \/ \E j \in 1..MaxCalls : TestStreamWrite(j)
  \/ ParserData
  \/ \E j \in 1..MaxCalls : parserBuffer = <<>> /\ Timeout(j)
  \/ ReturnOperation
  \/ ThrowOperation

CodecSpec == InitCodec /\ [][NextCodec]_vars

(***************************************************************************)
(* The decoding of a response by the read operations, on its own: the part *)
(* of the operation behind `await this.sendCommand(...)`.                  *)
(***************************************************************************)
\* number of payload fields of a response
MaxFields == 3

\* The payload fields of the responses.
FieldValues == { <<"0">>, <<"1">>, <<"2", "0", "0">> }

\* The responses the decoding is given.  sendCommand resolves with the
\* trimmed line, whatever follows its identifier: here the identifier 0, the
\* status 0 and a payload, which is one the stream of the tests sends or a
\* list of at most MaxFields fields, ended by a ';' or not.
Responses ==
  LET payloads == Lists(FieldValues, MaxFields)
                    \cup { a.fields : a \in TestStreamPayloads }
      line(fields) == Join(<< <<"0">>, <<"0">> >> \o fields, ";")
  IN  { line(fields) : fields \in payloads }
        \cup { line(fields) \o <<";">> : fields \in payloads }

\* A read operation called on a fresh ClearCore over a plain Duplex stream
\* is about to be resumed: its exchange, the first, has been fulfilled
\* with a response.
InitDecode ==
  /\ isSerialPort = FALSE
  /\ warmUp = 0
  /\ exited = FALSE
  /\ request \in { r \in Requests : r.name \in ReadOperations }
  /\ wire = CommandOf(request)
  /\ reply \in Responses
  /\ result = <<>>
  /\ calls = << [command |-> wire, state |-> "fulfilled", id |-> 0,
                 outcome |-> Reply(reply)] >>
  /\ commandIdCounter = 1
  /\ timers = {}
  /\ dataListeners = {}
  /\ errorListeners = {}
  /\ flowing = TRUE
  /\ writes = << [call |-> 1, id |-> 0, line |-> CommandWithId(0, wire) \o <<"\n">>,
                  flushing |-> 0] >>
  /\ writeCallbacks = {1}
  /\ flushes = 0
  /\ osBuffer = <<>>
  /\ parserBuffer = <<>>
  /\ linesSent = 1
  /\ settleOrder = <<1>>
  /\ erred = {}
  /\ enabledMotors = <<>>
  /\ ops = <<>>

\* The operation decodes the response and returns.
DecodeResponse ==
  /\ result = <<>>
  /\ calls[1].state = "fulfilled"
  /\ reply = calls[1].outcome.line
  /\ result' = <<ResultOf(request, reply)>>
  /\ UNCHANGED <<dispatcher, request, wire, reply>>

DecodeSpec == InitDecode /\ [][DecodeResponse]_vars

(***************************************************************************)
(* The dispatcher: one exchange at a time.                                 *)
(***************************************************************************)
\* The identifier a reply line carries, as dataListener reads it.
LeadingId(data) == ParseInt(Split(Trim(data), ";")[1])

\* C1: at most one exchange is outstanding: in every state at most one
\* written exchange is unsettled, and no step writes a command line while an
\* exchange written earlier is unsettled.
C1_OneOutstanding ==
  /\ [](Cardinality(Running) <= 1)
  /\ [][Len(writes') > Len(writes) => Running = {}]_vars

\* Three callers at once: the first exchange has settled, the second is
\* written and waits for its reply, the third waits in the queue.
C1_Witness ==
  /\ Len(calls) = 3
  /\ calls[1].state = "fulfilled"
  /\ calls[2].state = "running"
  /\ calls[3].state = "queued"

\* C2: an error aborts only its own exchange: a call that fails was written
\* to the transport and fails with the error of its own exchange.
C2_ErrorAbortsOnlyItsExchange ==
  \A j \in 1..Len(calls) : calls[j].state = "rejected" => calls[j].id # NoId

\* C3: the dispatcher accepts new exchanges after a timeout: with a caller
\* that awaits every call (AwaitSpec), a call made after the call before it
\* has timed out does not settle without having been written to the
\* transport.
C3_AcceptsAfterTimeout ==
  \A j \in 2..Len(calls) :
    (calls[j - 1].outcome.kind = "timeout" /\ Settled(j)) => calls[j].id # NoId

\* C4: N calls give N writes: once every call made has settled, the
\* transport has seen as many command lines as calls were made.
C4_OneWritePerCall ==
  Pending = {} => Len(writes) = Len(calls)

\* C5: replies are correlated by identifier, the identifier of a line being
\* its leading ';'-delimited field read by parseInt.  A call is fulfilled
\* only with a line whose leading identifier is the identifier of its own
\* exchange; a mismatch error of an exchange carries the identifier sent, the
\* one received and the raw line; and a line emitted to the listener of an
\* exchange with another leading identifier rejects that exchange with the
\* mismatch error, so it is the result of no call.
C5_RepliesCorrelated ==
  /\ [](\A j \in 1..Len(calls) :
          /\ calls[j].state = "fulfilled" =>
               /\ calls[j].outcome.kind = "reply"
               /\ ~LeadingId(calls[j].outcome.line).nan
               /\ LeadingId(calls[j].outcome.line).val = calls[j].id
          /\ (calls[j].id # NoId /\ calls[j].outcome.kind = "mismatch") =>
               /\ calls[j].outcome.sent = NumberToString(calls[j].id)
               /\ calls[j].outcome.received
                    = ParsedToString(LeadingId(calls[j].outcome.response))
               /\ calls[j].outcome.received # calls[j].outcome.sent)
  /\ [][\A j \in dataListeners :
          LET data == Head(parserBuffer)
          IN  (parserBuffer # <<>> /\ parserBuffer' = Tail(parserBuffer)
               /\ (LeadingId(data).nan \/ LeadingId(data).val # calls[j].id))
                => /\ calls'[j].state = "rejected"
                   /\ calls'[j].outcome.kind = "mismatch"
                   /\ calls'[j].outcome.response = data]_vars

\* The reply to the first exchange arrives twice: the first exchange is
\* fulfilled with it, the second one is rejected with it as a mismatch.
C5_Witness ==
  /\ Len(calls) >= 2
  /\ calls[1].state = "fulfilled"
  /\ calls[2].state = "rejected"
  /\ calls[2].outcome.kind = "mismatch"
  /\ calls[2].outcome.response = ReplyLine(calls[1].id, calls[1].command)

\* C6: command lines are written in the order of the calls.
C6_WritesInCallOrder ==
  \A a, b \in 1..Len(writes) : a < b => writes[a].call < writes[b].call

C6_Witness ==
  /\ Len(writes) = 3
  /\ calls[3].state = "running"

\* C7: the promises settle in the order of the calls.
C7_SettleInCallOrder ==
  /\ \A a, b \in 1..Len(settleOrder) : a < b => settleOrder[a] < settleOrder[b]
  /\ \A j \in 1..Len(calls) : Settled(j) => \E a \in 1..Len(settleOrder) : settleOrder[a] = j

\* A success, then a failure of its own, then a failure taken over.
C7_Witness ==
  /\ settleOrder = <<1, 2, 3>>
  /\ calls[1].state = "fulfilled"
  /\ calls[2].state = "rejected"
  /\ calls[3].id = NoId

\* C8: the identifiers written count up from the counter's start, one per
\* exchange started, modulo MAX_COMMAND_ID; the counter stays in
\* [0, MAX_COMMAND_ID); from a fresh dispatcher they are 0, 1, 2, ...
C8_IdsCountUp ==
  /\ commandIdCounter \in 0..(MAX_COMMAND_ID - 1)
  /\ commandIdCounter = (warmUp + Len(writes)) % MAX_COMMAND_ID
  /\ Len(writes) = Cardinality({ j \in 1..Len(calls) : calls[j].id # NoId })
  /\ \A k \in 1..Len(writes) :
       /\ writes[k].id = (warmUp + k - 1) % MAX_COMMAND_ID
       /\ calls[writes[k].call].id = writes[k].id
       /\ Split(writes[k].line, ";")[1] = NumberToString(writes[k].id)
       /\ warmUp = 0 => writes[k].id = k - 1

\* The exchange after the one with identifier MAX_COMMAND_ID - 1 has
\* identifier 0; it has failed, and the counter has moved on.
C8_Witness ==
  /\ Len(writes) = 2
  /\ writes[1].id = MAX_COMMAND_ID - 1
  /\ writes[2].id = 0
  /\ calls[2].state = "rejected"
  /\ commandIdCounter = 1

\* C9: the receive buffer has been cleared before the command line is sent:
\* no command line is written while a flush is still under way.
C9_FlushedBeforeWrite ==
  \A k \in 1..Len(writes) : writes[k].flushing = 0

\* C10: every call settles: under FairSpec (timers fire and promise jobs
\* run) each call that has been made is eventually fulfilled or rejected,
\* whatever the board sends and however many calls are queued before it.
C10_EveryCallSettles ==
  \A j \in 1..MaxCalls : (j <= Len(calls)) ~> (j <= Len(calls) /\ Settled(j))

(***************************************************************************)
(* The enabled motors.                                                     *)
(***************************************************************************)
\* The elements of a list.
Range(seq) == { seq[i] : i \in 1..Len(seq) }

\* The motors enabled once the first k operations have been called: each
\* enableMotors adds its arguments, each disableMotors takes its away.
RECURSIVE EnabledAfter(_)
EnabledAfter(k) ==
  IF k = 0 THEN {}
  ELSE IF ops[k].name = "enableMotors"
       THEN EnabledAfter(k - 1) \cup Range(ops[k].motors)
  ELSE IF ops[k].name = "disableMotors"
       THEN EnabledAfter(k - 1) \ Range(ops[k].motors)
  ELSE EnabledAfter(k - 1)

\* The bits set in the selector of a command "NAME;count;selector...".
SelectorBits(command) ==
  LET selector == ParseInt(Split(command, ";")[3]).val
  IN  { b \in 0..31 : Bit(selector, b) }

IsMotorsEnable(command) ==
  LET fields == Split(command, ";")
  IN  /\ Len(fields) = 3
      /\ fields[1] = <<"MOTORS_ENABLE">>
      /\ fields[2] = <<"1">>

\* C11: the command every call of enableMotors or disableMotors hands to the
\* dispatcher is MOTORS_ENABLE;1;selector, the bits of the selector being
\* exactly the motors enabled after the changes of that call (those of its
\* arguments and those left by the calls before it); and the line written
\* for the call is that command behind its identifier.
C11_EnableSendsWholeSet ==
  /\ \A k \in 1..Len(ops) :
       ops[k].name \in {"enableMotors", "disableMotors"} =>
         /\ IsMotorsEnable(calls[k].command)
         /\ SelectorBits(calls[k].command) = EnabledAfter(k)
  /\ \A w \in 1..Len(writes) :
       writes[w].line = CommandWithId(writes[w].id, calls[writes[w].call].command)
                          \o <<"\n">>

\* enableMotors(0), then enableMotors(2): the second line written carries 5.
C11_Witness ==
  /\ Len(ops) >= 2
  /\ ops[1] = [name |-> "enableMotors", motors |-> <<0>>]
  /\ ops[2] = [name |-> "enableMotors", motors |-> <<2>>]
  /\ Len(writes) >= 2
  /\ writes[2].line = <<"1", ";", "MOTORS_ENABLE", ";", "1", ";", "5", "\n">>

(***************************************************************************)
(* The ways an exchange fails.                                             *)
(***************************************************************************)
\* C12: a failed write fails its exchange with the error of the write.  A
\* step in which the write callback of an exchange that has not settled yet
\* is called with an error rejects the call with that error and disarms
\* its timer, so no timeout follows; and a call rejected with the error of
\* its write keeps that outcome.
C12_WriteFailureRejects ==
  /\ [][\A j \in 1..Len(calls) :
          (j \in writeCallbacks /\ j \notin writeCallbacks' /\ calls[j].state = "running")
            => /\ calls'[j].state = "rejected"
               /\ calls'[j].outcome = WriteError
               /\ j \notin timers']_vars
  /\ [][\A j \in 1..Len(calls) :
          calls[j].outcome = WriteError
            => calls'[j].outcome = WriteError /\ calls'[j].state = "rejected"]_vars

\* The write of the second exchange has failed: its call is rejected with
\* the error of the write, and its timer is not armed.
C12_Witness ==
  /\ Len(calls) >= 2
  /\ calls[1].state = "fulfilled"
  /\ calls[2].state = "rejected"
  /\ calls[2].id # NoId
  /\ calls[2].outcome = WriteError
  /\ 2 \notin timers

\* C13 as stated: an "error" event of the port during an exchange, before
\* or after the reply line of that exchange, fails the exchange with that
\* error.
C13_ErrorFailsExchange ==
  \A j \in erred : calls[j].state = "rejected" /\ calls[j].outcome = PortError

\* C13, amended: an "error" event of the port while the exchange has not
\* settled rejects its call with that error, the reply line received and
\* not yet delivered or not; an "error" event after the reply line has been
\* delivered leaves the call fulfilled with that line.
C13_ErrorFailsUnsettledExchange ==
  [][\A j \in erred' \ erred :
       /\ calls[j].state = "running"
            => calls'[j].state = "rejected" /\ calls'[j].outcome = PortError
       /\ calls[j].state = "fulfilled" => calls'[j] = calls[j]]_vars

\* The port has emitted "error" with the reply line of the exchange received
\* and not delivered yet: the call is rejected with the error.
C13_Witness ==
  \E j \in erred :
    /\ calls[j].state = "rejected"
    /\ calls[j].outcome = PortError
    /\ \E i \in 1..Len(parserBuffer) :
         parserBuffer[i] = ReplyLine(calls[j].id, calls[j].command)

(***************************************************************************)
(* The domain operations.                                                  *)
(***************************************************************************)
\* The indices the tests read: motors, and sensors, 0 and 2.
TestIndices == <<0, 2>>

\* The state of motor, or sensor, i of TestIndices: the element the tests
\* expect for it, which is what the read operation decodes from the fields
\* the stream answers with for i.
StateOf(name, i) ==
  LET k == CHOOSE k \in 1..Len(TestIndices) : TestIndices[k] = i
  IN  DecodeParts(name, TestStreamPayload(CommandOf(Request(name, 0, TestIndices, <<>>))))[k]

\* C14: a read operation called with the indices i1..in, in any order and
\* with or without repeats, returns n elements, the k-th being the state of
\* index ik, when the answer is a line that ends with ';'.
C14_ResultsInRequestOrder ==
  (request.name \in ReadOperations /\ reply # <<>> /\ reply[Len(reply)] = ";")
    => /\ Len(result[1]) = Len(request.indices)
       /\ \A k \in 1..Len(request.indices) :
            result[1][k] = StateOf(request.name, request.indices[k])

\* The argumentCount field of a command string.
ArgumentCount(command) == ParseInt(Split(command, ";")[2]).val

\* The operations whose command carries a selector.
SelectorOperations ==
  IndexOperations \cup {"moveMotors", "setMotorsVelocity", "writeDigitalPins",
                        "setPinsMode", "disableAllMotors"}

\* The number of fields a call puts behind the selector of its command.
FieldsBehindSelector(r) ==
  CASE r.name = "moveMotors" -> 3 * Len(r.params)
    [] r.name = "setMotorsVelocity" -> 2 * Len(r.params)
    [] r.name = "writeDigitalPins" -> Len(r.params)
    [] r.name = "setPinsMode" -> 1
    [] OTHER -> 0

\* C15 as stated: the argumentCount field of a command is the number of
\* fields behind its selector: 3n for moveMotors with n motors, 2n for
\* setMotorsVelocity, n for writeDigitalPins, 0 for a command with a selector
\* alone.
C15_CountsFieldsBehindSelector ==
  (wire # <<>> /\ request.name \in SelectorOperations)
    => ArgumentCount(wire) = FieldsBehindSelector(request)

\* C15, amended: the argumentCount field counts the selector as well: it is
\* 1 + 3n for moveMotors with n motors, 1 + 2n for setMotorsVelocity, 1 + n
\* for writeDigitalPins, 1 for a command with a selector alone; and for a
\* command with at least one target, or one that takes no list of
\* parameters, it is the number of fields behind the argumentCount field.
C15_CountsSelectorToo ==
  wire # <<>> =>
    /\ request.name \in SelectorOperations
         => ArgumentCount(wire) = 1 + FieldsBehindSelector(request)
    /\ (request.params # <<>>
          \/ request.name \notin {"moveMotors", "setMotorsVelocity", "writeDigitalPins"})
         => ArgumentCount(wire) = Len(Split(wire, ";")) - 2

\* moveMotors({id: 0, steps: 100, velocity: 1000, acceleration: 10000})
\* has built MOTORS_MOVE;4;1;100;1000;10000.
C15_Witness ==
  /\ request.name = "moveMotors"
  /\ Len(request.params) = 1
  /\ wire = <<"MOTORS_MOVE", ";", "4", ";", "1", ";", "1", "0", "0", ";",
              "1", "0", "0", "0", ";", "1", "0", "0", "0", "0">>

\* The indices a call names.
Targets(r) == Range(r.indices) \cup Range(Ids(r.params))

\* The decimal digits of the sum of 2^i over the indices i of S, S a set of
\* indices from 0 to 31.
UnsignedSelector(S) ==
  LET low == LowBits(S, 30)
      u   == 8 + (low % 10)
  IN  IF 31 \notin S THEN NumberToString(low)
      ELSE NumberToString(214748364 + (low \div 10) + (u \div 10))
             \o <<Digits[(u % 10) + 1]>>

\* C16: for indices from 0 to 31, repeated or not, the selector field of the
\* command is the unsigned integer with bit i set exactly when i is among
\* the indices: the sum of 2^i over the distinct indices.
C16_SelectorIsUnsignedBitmask ==
  (wire # <<>> /\ request.name \in SelectorOperations \ {"disableAllMotors"})
    => Split(wire, ";")[3] = UnsignedSelector(Targets(request))

\* C17: the enabled motors change in calls of enableMotors and disableMotors
\* only: a step that changes them is such a call, so disableAllMotors and
\* the exchanges leave them as they are; and the command of a call of
\* enableMotors, after a disableAllMotors too, selects every motor that was
\* enabled before the call.
C17_OnlyEnableDisableChangeSet ==
  /\ [][enabledMotors' # enabledMotors
          => /\ Len(ops') = Len(ops) + 1
             /\ ops'[Len(ops')].name \in {"enableMotors", "disableMotors"}]_vars
  /\ [][(Len(ops') = Len(ops) + 1 /\ ops'[Len(ops')].name = "enableMotors")
          => Range(enabledMotors) \subseteq SelectorBits(calls'[Len(calls')].command)]_vars

\* enableMotors(0), disableAllMotors(), enableMotors(2): the third command
\* selects motors 0 and 2.
C17_Witness ==
  /\ Len(ops) = 3
  /\ ops[1] = [name |-> "enableMotors", motors |-> <<0>>]
  /\ ops[2].name = "disableAllMotors"
  /\ ops[3] = [name |-> "enableMotors", motors |-> <<2>>]
  /\ calls[2].command = <<"MOTORS_ENABLE", ";", "1", ";", "0">>
  /\ calls[3].command = <<"MOTORS_ENABLE", ";", "1", ";", "5">>
  /\ enabledMotors = <<0, 2>>

\* The bits set in the selector of a line "id;NAME;count;selector\n".
LineSelectorBits(line) == BoardBits(Split(Trim(line), ";")[4])

\* C18: calls of enableMotors and disableMotors made without awaiting.  Each
\* call updates the enabled motors and builds its command from them within
\* the call; the lines are written in the order of the calls; so once every
\* call made is fulfilled, the last of them being an enableMotors or a
\* disableMotors, the selector of the line written last is the set of the
\* enabled motors.
C18_LastLineIsFinalSet ==
  /\ [][(Len(ops') = Len(ops) + 1
           /\ ops'[Len(ops')].name \in {"enableMotors", "disableMotors"})
          => SelectorBits(calls'[Len(calls')].command) = Range(enabledMotors')]_vars
  /\ [](\A w \in 1..Len(writes) : writes[w].call = w)
  /\ []((/\ ops # <<>>
         /\ ops[Len(ops)].name \in {"enableMotors", "disableMotors"}
         /\ \A j \in 1..Len(calls) : calls[j].state = "fulfilled")
          => LineSelectorBits(writes[Len(writes)].line) = Range(enabledMotors))

\* enableMotors(0, 2) and disableMotors(0) have both been answered: the line
\* written last selects motor 2, the one motor enabled.
C18_Witness ==
  /\ Len(ops) = 2
  /\ ops[1] = [name |-> "enableMotors", motors |-> <<0, 2>>]
  /\ ops[2] = [name |-> "disableMotors", motors |-> <<0>>]
  /\ \A j \in 1..2 : calls[j].state = "fulfilled"
  /\ writes[2].line = <<"1", ";", "MOTORS_ENABLE", ";", "1", ";", "4", "\n">>
  /\ enabledMotors = <<2>>

\* C19: once an exchange has settled, by its reply, its timeout, an "error"
\* event or a failed write, neither its reply listener nor its error
\* listener nor its timer is registered.
C19_NothingLeftRegistered ==
  \A j \in 1..Len(calls) :
    Settled(j) => j \notin (timers \cup dataListeners \cup errorListeners)

\* The fields of a response behind the identifier and the status, without
\* the empty field a ';' at the end makes.
PayloadKept(response) ==
  LET fields == Split(response, ";")
      behind == SubSeq(fields, 3, Len(fields))
  IN  IF behind # <<>> /\ behind[Len(behind)] = <<>>
      THEN SubSeq(behind, 1, Len(behind) - 1)
      ELSE behind

\* C20: a read operation decodes the fields of the response behind the
\* identifier and the status, dropping nothing but the empty field of a ';'
\* at the end: with or without that ';' it returns what these fields decode
\* to.
C20_OnlyTrailingEmptyFieldDropped ==
  (request.name \in ReadOperations /\ reply # <<>> /\ result # <<>>)
    => result[1] = DecodeParts(request.name, PayloadKept(reply))

\* C21: enableMotors and disableMotors update the enabled motors within the
\* call, before their command is written, and nothing takes the update
\* back.  The enabled motors are at all times what the calls made so far
\* add up to, whether their exchanges are still to be written, have
\* succeeded or have failed; a step in which a call is rejected (timeout,
\* mismatch, transport error, or the failure of the call before it) leaves
\* them as they are; and a call made after the call before it has failed
\* builds its selector from the motors enabled by all calls made so far,
\* the failed one included.
C21_SetKeptAfterFailure ==
  /\ [](Range(enabledMotors) = EnabledAfter(Len(ops)))
  /\ [][\A j \in 1..Len(calls) :
          (calls[j].state # "rejected" /\ calls'[j].state = "rejected")
            => enabledMotors' = enabledMotors]_vars
  /\ [][(Len(ops') = Len(ops) + 1 /\ ops # <<>> /\ calls[Len(calls)].state = "rejected")
          => LET o == ops'[Len(ops')]
             IN  SelectorBits(calls'[Len(calls')].command) =
                   IF o.name = "enableMotors"
                   THEN EnabledAfter(Len(ops)) \cup Range(o.motors)
                   ELSE EnabledAfter(Len(ops)) \ Range(o.motors)]_vars

\* The exchange of enableMotors(0) was written and has failed; the command
\* of enableMotors(2), called next, selects motors 0 and 2.
C21_Witness ==
  /\ Len(ops) = 2
  /\ ops[1] = [name |-> "enableMotors", motors |-> <<0>>]
  /\ ops[2] = [name |-> "enableMotors", motors |-> <<2>>]
  /\ calls[1].state = "rejected"
  /\ calls[1].id # NoId
  /\ calls[1].outcome.kind \in {"timeout", "mismatch", "transport"}
  /\ calls[2].command = <<"MOTORS_ENABLE", ";", "1", ";", "5">>
  /\ enabledMotors = <<0, 2>>

=============================================================================
